---- MODULE Spec2Model ----
(***************************************************************************)
(* Event dispatch and action lifecycle of the Stream Dock plugin runtime:  *)
(* Plugin (src/src/core/plugin.py), ActionFactory                          *)
(* (src/src/core/action_factory.py) and the Test action                    *)
(* (src/src/actions/test.py).                                              *)
(*                                                                         *)
(* Python values are modelled as follows.  A dict is a function whose      *)
(* DOMAIN is its key set, so d.get(k, default) is Get(d, k, default).      *)
(* None is the string "None".  A settings document is a string naming it   *)
(* ("{}" is the empty document).  An action string is a sequence of        *)
(* characters, so that str.split('.') is computed and not assumed.         *)
(***************************************************************************)
EXTENDS Integers, Sequences, FiniteSets, TLC

VARIABLES
    ws_state,        \* the transport of Plugin.ws: "Connecting", "Open", "Closed"
    actions,         \* Plugin.actions: context -> Action instance
    order,           \* insertion order of the keys of Plugin.actions (a Python dict)
    global_settings, \* Plugin.global_settings
    action_types,    \* ActionFactory._action_types: type key -> class
    registered,      \* history: per type key, the class of the most recent
                     \* register_action call for it
    sent,            \* the frames the last operation handed to ws.send and
                     \* the transport took
    stopped,         \* Plugin.stop() has been called on a connected session
    appeared,        \* history: per context, the most recent lifecycle message
                     \* was a willAppear that constructed or found the context live
    last,            \* the operation that ran last, with its input
    calls,           \* the hook invocations the last operation made, in order
    ctor,            \* the constructor invocations the last operation made
    logs,            \* the Logger entries the last operation produced
    raised,          \* an exception left the last operation
    main_pc,         \* where main() is: "constructed" (line 18 done),
                     \* "waiting" (in the loop of lines 29-30), "exited"
    on_close,        \* Plugin.ws.on_close: "None" or "installed"
    stop_event       \* main()'s stop_event is set

vars == <<ws_state, actions, order, global_settings, action_types, registered,
          sent, stopped, appeared, last, calls, ctor, logs, raised,
          main_pc, on_close, stop_event>>

----------------------------------------------------------------------------
(* Bounds and input sets *)

None == "None"
EmptyDoc == "{}"
EmptyDict == [k \in {} |-> EmptyDoc]

Contexts == {"c1", "c2"}
SettingsDocs == {"{x:1}"}
GlobalDocs == {"{theme:dark}"}

PluginUuid == "plugin-uuid"
RegisterEvent == "registerPlugin"

Get(d, k, default) == IF k \in DOMAIN d THEN d[k] ELSE default

----------------------------------------------------------------------------
(* Action classes *)

AllHooks ==
    {"on_will_disappear", "on_did_receive_settings", "on_did_receive_global_settings",
     "on_title_parameters_did_change",
     "on_key_down", "on_key_up", "on_dial_down", "on_dial_up", "on_dial_rotate",
     "on_device_did_connect", "on_device_did_disconnect", "on_application_did_launch",
     "on_application_did_terminate", "on_system_did_wake_up",
     "on_property_inspector_did_appear", "on_property_inspector_did_disappear",
     "on_send_to_plugin"}

\* The hooks class Test defines: every hook the router looks for except
\* on_did_receive_settings and on_title_parameters_did_change.
TestHooks ==
    AllHooks \ {"on_did_receive_settings", "on_title_parameters_did_change"}

\* The classes the registry may hold.  "Test" is the class of
\* src/actions/test.py; "Knob" is an action that defines only the two hooks
\* Test leaves to the router's fallback; "Bad" is an action whose constructor
\* raises; "Alien" is a class that does not derive from Action.
Classes == {"Test", "Knob", "Bad", "Alien"}

\* A hook is modelled by its invocation and by whether it raises; what its
\* body does (Test's hooks log, and on_key_up asks the base class to set the
\* button state) is outside the router.
Hooks(cls) ==
    CASE cls = "Test" -> TestHooks
      [] cls = "Knob" -> {"on_did_receive_settings", "on_title_parameters_did_change"}
      [] OTHER -> {}

ConstructorRaises(cls) == cls = "Bad"

IsActionSubclass(cls) == cls \in {"Test", "Knob", "Bad"}

Unset == "unset"

\* Action.__init__(action, context, settings, plugin): the base class keeps
\* its arguments; title and title_parameters exist only once the router's
\* fallback has assigned them.
NewAction(cls, action, context, settings) ==
    [cls |-> cls, action |-> action, context |-> context, settings |-> settings,
     title |-> Unset, title_parameters |-> Unset]

----------------------------------------------------------------------------
(* ActionFactory *)

KeyTest == <<"t", "e", "s", "t">>
KeyKnob == <<"k", "n", "o", "b">>
KeyBad == <<"b", "a", "d">>

\* The registry after scan_and_register_actions: one entry per module of the
\* actions directory, keyed by the lower-cased module name.
ScannedActionTypes ==
    [k \in {KeyTest, KeyKnob, KeyBad} |->
        CASE k = KeyTest -> "Test" [] k = KeyKnob -> "Knob" [] OTHER -> "Bad"]

\* The action argument when the message carries no action field (Python None).
NoneAction == <<"None">>

HasDot(s) == \E i \in 1..Len(s) : s[i] = "."

FirstDot(s) == CHOOSE i \in 1..Len(s) : s[i] = "." /\ \A j \in 1..(i - 1) : s[j] # "."

\* str.split('.')
RECURSIVE Split(_)
Split(s) ==
    IF HasDot(s)
    THEN LET i == FirstDot(s)
         IN  <<SubSeq(s, 1, i - 1)>> \o Split(SubSeq(s, i + 1, Len(s)))
    ELSE <<s>>

\* action.split('.')[0]
ActionName_First(action) == LET parts == Split(action) IN parts[1]

\* action.split('.')[-1]
ActionName(action) == LET parts == Split(action) IN parts[Len(parts)]

Log(level, msg) == [level |-> level, msg |-> msg]

NoInstance == NewAction(None, NoneAction, None, None)

Created(ok, inst, made, entries) ==
    [ok |-> ok, inst |-> inst, ctor |-> made, logs |-> entries]

\* create_action that hands the constructor the registry key and not the
\* action string it was given.
CreateAction_ShortName(action, context, settings) ==
    IF action = NoneAction
    THEN Created(FALSE, NoInstance, <<>>, <<Log("error", "Error creating action")>>)
    ELSE LET action_name == ActionName(action) IN
    IF action_name \notin DOMAIN action_types
    THEN Created(FALSE, NoInstance, <<>>, <<Log("error", "Action type not found")>>)
    ELSE LET cls == action_types[action_name]
             made == <<[cls |-> cls, action |-> action_name, context |-> context,
                        settings |-> settings]>>
         IN  IF ConstructorRaises(cls)
             THEN Created(FALSE, NoInstance, made,
                          <<Log("error", "Error creating action")>>)
             ELSE IF ~IsActionSubclass(cls)
             THEN Created(FALSE, NoInstance, made,
                          <<Log("error", "Created instance is not an Action type")>>)
             ELSE Created(TRUE, NewAction(cls, action_name, context, settings), made, <<>>)

\* ActionFactory.create_action: ok is FALSE where the code returns None.
CreateAction(action, context, settings) ==
    IF action = NoneAction
    THEN \* None.split raises AttributeError inside the try block
         Created(FALSE, NoInstance, <<>>, <<Log("error", "Error creating action")>>)
    ELSE LET action_name == ActionName(action) IN
    IF action_name \notin DOMAIN action_types
    THEN Created(FALSE, NoInstance, <<>>, <<Log("error", "Action type not found")>>)
    ELSE LET cls == action_types[action_name]
             made == <<[cls |-> cls, action |-> action, context |-> context,
                        settings |-> settings]>>
         IN  IF ConstructorRaises(cls)
             THEN Created(FALSE, NoInstance, made,
                          <<Log("error", "Error creating action")>>)
             ELSE IF ~IsActionSubclass(cls)
             THEN Created(FALSE, NoInstance, made,
                          <<Log("error", "Created instance is not an Action type")>>)
             ELSE Created(TRUE, NewAction(cls, action, context, settings), made, <<>>)

----------------------------------------------------------------------------
(* Plugin._on_message *)

context_events ==
    [e \in {"keyDown", "keyUp", "dialDown", "dialUp", "dialRotate"} |->
        CASE e = "keyDown" -> "on_key_down"
          [] e = "keyUp" -> "on_key_up"
          [] e = "dialDown" -> "on_dial_down"
          [] e = "dialUp" -> "on_dial_up"
          [] OTHER -> "on_dial_rotate"]

global_events ==
    [e \in {"deviceDidConnect", "deviceDidDisconnect", "applicationDidLaunch",
            "applicationDidTerminate", "systemDidWakeUp"} |->
        CASE e = "deviceDidConnect" -> "on_device_did_connect"
          [] e = "deviceDidDisconnect" -> "on_device_did_disconnect"
          [] e = "applicationDidLaunch" -> "on_application_did_launch"
          [] e = "applicationDidTerminate" -> "on_application_did_terminate"
          [] OTHER -> "on_system_did_wake_up"]

Event(data) == Get(data, "event", None)
Context(data) == Get(data, "context", None)
Payload(data) == Get(data, "payload", EmptyDict)

\* hasattr(self.actions[c], h)
HasAttr(c, h) == h \in Hooks(actions[c].cls)

Call(c, h, arg) == [context |-> c, hook |-> h, arg |-> arg]

\* for action in self.actions.values(): if hasattr(action, h): action.h(arg)
ForEachAction(h, arg) ==
    LET with == SelectSeq(order, LAMBDA c : HasAttr(c, h))
    IN  [i \in 1..Len(with) |-> Call(with[i], h, arg)]

\* The hook looked up on every live action and not on the one of the context.
ForContext_Broadcast(c, h, arg) == ForEachAction(h, arg)

\* if context in self.actions: if hasattr(action, h): action.h(arg)
ForContext(c, h, arg) ==
    IF c \in DOMAIN actions /\ HasAttr(c, h) THEN <<Call(c, h, arg)>> ELSE <<>>

\* The hook invocations the handler makes for a message when no hook raises,
\* in the order it makes them.
HookPlan(data) ==
    LET event == Event(data)
        context == Context(data)
    IN  CASE event = "didReceiveGlobalSettings" ->
                ForEachAction("on_did_receive_global_settings",
                              Get(Payload(data), "settings", None))
          [] event = "willDisappear" ->
                ForContext(context, "on_will_disappear", None)
          [] event = "didReceiveSettings" ->
                ForContext(context, "on_did_receive_settings",
                           Get(Payload(data), "settings", EmptyDoc))
          [] event = "titleParametersDidChange" ->
                ForContext(context, "on_title_parameters_did_change", Payload(data))
          [] event \in DOMAIN context_events ->
                ForContext(context, context_events[event], Payload(data))
          [] event \in DOMAIN global_events ->
                ForEachAction(global_events[event], data)
          [] event = "propertyInspectorDidAppear" ->
                ForContext(context, "on_property_inspector_did_appear", data)
          [] event = "propertyInspectorDidDisappear" ->
                ForContext(context, "on_property_inspector_did_disappear", data)
          [] event = "sendToPlugin" ->
                ForContext(context, "on_send_to_plugin", Payload(data))
          [] OTHER -> <<>>

\* The invocations made when the thr-th one raises (thr = 0: none raises).
\* A hook is code of the action: the handler calls it unguarded, so any
\* invocation may raise, and the handler does nothing after one that does.
Invoked(data, thr) ==
    IF thr = 0 THEN HookPlan(data) ELSE SubSeq(HookPlan(data), 1, thr)

\* The outcome of one run of the handler.
Outcome(acts, ord, gs, made, con, entries, exc) ==
    [actions |-> acts, order |-> ord, global_settings |-> gs, calls |-> made,
     ctor |-> con, logs |-> entries, raised |-> exc]

Remove(seq, c) == SelectSeq(seq, LAMBDA x : x # c)

\* WillAppear without the test that the context is absent: every willAppear
\* constructs, and a live context gets a new instance.
WillAppear_NoLiveCheck(data) ==
    LET context == Context(data)
        made == CreateAction(Get(data, "action", NoneAction), context,
                             Get(Payload(data), "settings", EmptyDoc))
    IN  IF made.ok
        THEN Outcome([c \in DOMAIN actions \cup {context} |->
                         IF c = context THEN made.inst ELSE actions[c]],
                     IF context \in DOMAIN actions THEN order ELSE Append(order, context),
                     global_settings, <<>>, made.ctor, made.logs, FALSE)
        ELSE Outcome(actions, order, global_settings, <<>>, made.ctor,
                     Append(made.logs, Log("error", "Failed to create action")), FALSE)

\* WillAppear without the test of create_action's result: whatever the
\* factory returned is stored under the context.
WillAppear_StoresFailure(data) ==
    LET context == Context(data)
        made == CreateAction(Get(data, "action", NoneAction), context,
                             Get(Payload(data), "settings", EmptyDoc))
    IN  IF context \notin DOMAIN actions
        THEN Outcome([c \in DOMAIN actions \cup {context} |->
                         IF c = context THEN made.inst ELSE actions[c]],
                     Append(order, context), global_settings,
                     <<>>, made.ctor, made.logs, FALSE)
        ELSE Outcome(actions, order, global_settings, <<>>, <<>>, <<>>, FALSE)

\* elif event == 'willAppear'
WillAppear(data) ==
    LET context == Context(data)
        made == CreateAction(Get(data, "action", NoneAction), context,
                             Get(Payload(data), "settings", EmptyDoc))
    IN  IF context \notin DOMAIN actions
        THEN IF made.ok
             THEN Outcome([c \in DOMAIN actions \cup {context} |->
                              IF c = context THEN made.inst ELSE actions[c]],
                          Append(order, context), global_settings,
                          <<>>, made.ctor, made.logs, FALSE)
             ELSE Outcome(actions, order, global_settings, <<>>, made.ctor,
                          Append(made.logs, Log("error", "Failed to create action")),
                          FALSE)
        ELSE Outcome(actions, order, global_settings, <<>>, <<>>, <<>>, FALSE)

\* WillDisappear without the test that the context is live: the lookup of an
\* unknown context raises KeyError.
WillDisappear_NoLiveCheck(data, thr) ==
    LET context == Context(data)
    IN  IF context \in DOMAIN actions /\ thr = 0
        THEN Outcome([c \in DOMAIN actions \ {context} |-> actions[c]],
                     Remove(order, context), global_settings,
                     Invoked(data, thr), <<>>, <<>>, FALSE)
        ELSE Outcome(actions, order, global_settings, Invoked(data, thr),
                     <<>>, <<>>, TRUE)

\* elif event == 'willDisappear': the del statement follows the hook call, so
\* it is not reached when the hook raises.
WillDisappear(data, thr) ==
    LET context == Context(data)
    IN  IF context \in DOMAIN actions /\ thr = 0
        THEN Outcome([c \in DOMAIN actions \ {context} |-> actions[c]],
                     Remove(order, context), global_settings,
                     Invoked(data, thr), <<>>, <<>>, FALSE)
        ELSE Outcome(actions, order, global_settings, Invoked(data, thr),
                     <<>>, <<>>, thr # 0)

\* if event == 'didReceiveGlobalSettings': the cache is assigned before the loop.
DidReceiveGlobalSettings(data, thr) ==
    Outcome(actions, order, Get(Payload(data), "settings", None),
            Invoked(data, thr), <<>>, <<>>, thr # 0)

\* DidReceiveSettings that assigns the settings whether or not the action
\* defines the hook.
DidReceiveSettings_AlwaysAssign(data, thr) ==
    LET context == Context(data)
        settings == Get(Payload(data), "settings", EmptyDoc)
    IN  IF context \in DOMAIN actions
        THEN Outcome([actions EXCEPT ![context].settings = settings], order,
                     global_settings, Invoked(data, thr), <<>>, <<>>, thr # 0)
        ELSE Outcome(actions, order, global_settings, <<>>, <<>>, <<>>, FALSE)

\* elif event == 'didReceiveSettings'
DidReceiveSettings(data, thr) ==
    LET context == Context(data)
        settings == Get(Payload(data), "settings", EmptyDoc)
    IN  IF context \in DOMAIN actions /\ ~HasAttr(context, "on_did_receive_settings")
        THEN Outcome([actions EXCEPT ![context].settings = settings], order,
                     global_settings, <<>>, <<>>, <<>>, FALSE)
        ELSE Outcome(actions, order, global_settings, Invoked(data, thr),
                     <<>>, <<>>, thr # 0)

\* elif event == 'titleParametersDidChange'
TitleParametersDidChange(data, thr) ==
    LET context == Context(data)
        payload == Payload(data)
    IN  IF context \in DOMAIN actions
           /\ ~HasAttr(context, "on_title_parameters_did_change")
        THEN Outcome([actions EXCEPT
                         ![context].title = Get(payload, "title", ""),
                         ![context].title_parameters =
                             Get(payload, "titleParameters", EmptyDoc)],
                     order, global_settings, <<>>, <<>>, <<>>, FALSE)
        ELSE Outcome(actions, order, global_settings, Invoked(data, thr),
                     <<>>, <<>>, thr # 0)

\* A hook-only branch that also forgets the context it addressed.
HookOnly_DropsContext(data, thr) ==
    Outcome([c \in DOMAIN actions \ {Context(data)} |-> actions[c]],
            Remove(order, Context(data)), global_settings, Invoked(data, thr),
            <<>>, <<>>, thr # 0)

\* The branches that only invoke hooks: context_events, global_events,
\* propertyInspectorDidAppear, propertyInspectorDidDisappear, sendToPlugin;
\* an event none of the branches names invokes nothing.
HookOnly(data, thr) ==
    Outcome(actions, order, global_settings, Invoked(data, thr), <<>>, <<>>, thr # 0)

\* The handler after json.loads succeeded: Logger.info(event), then the
\* branch of the event.
Dispatch(data, thr) ==
    LET event == Event(data)
        r == CASE event = "didReceiveGlobalSettings" -> DidReceiveGlobalSettings(data, thr)
               [] event = "willAppear" -> WillAppear(data)
               [] event = "willDisappear" -> WillDisappear(data, thr)
               [] event = "didReceiveSettings" -> DidReceiveSettings(data, thr)
               [] event = "titleParametersDidChange" -> TitleParametersDidChange(data, thr)
               [] OTHER -> HookOnly(data, thr)
    IN  [r EXCEPT !.logs = <<Log("info", event)>> \o r.logs]

----------------------------------------------------------------------------
(* Inbound frames *)

ActionStrings ==
    {<<"c", ".">> \o KeyTest, <<"c", ".">> \o KeyKnob, <<"c", ".">> \o KeyBad,
     <<"c", ".", "n", "o">>}

\* The events of the branches of the handler that address a single context
\* and read nothing of the payload.
ContextEvents ==
    {"willDisappear", "keyDown", "keyUp", "dialDown", "dialUp", "dialRotate",
     "propertyInspectorDidAppear", "propertyInspectorDidDisappear",
     "sendToPlugin"}

WillAppearMessages ==
    [event : {"willAppear"}, context : Contexts]
    \cup [event : {"willAppear"}, context : Contexts, action : ActionStrings]
    \cup [event : {"willAppear"}, context : Contexts,
          action : {<<"c", ".">> \o KeyTest},
          payload : [settings : SettingsDocs]]

SettingsMessages ==
    [event : {"didReceiveSettings"}, context : Contexts]
    \cup [event : {"didReceiveSettings"}, context : Contexts,
          payload : [settings : SettingsDocs]]

TitleMessages ==
    [event : {"titleParametersDidChange"}, context : Contexts,
     payload : [title : {"T"}, titleParameters : {"{font:9}"}]]

GlobalSettingsMessages ==
    [event : {"didReceiveGlobalSettings"}]
    \cup [event : {"didReceiveGlobalSettings"}, payload : [settings : GlobalDocs]]

ContextMessages ==
    [event : ContextEvents, context : Contexts, payload : [state : {0}]]

BroadcastMessages == [event : DOMAIN global_events]

UnknownMessages == [event : {"touchTap"}]

Messages ==
    WillAppearMessages \cup SettingsMessages \cup TitleMessages
    \cup GlobalSettingsMessages \cup ContextMessages \cup BroadcastMessages
    \cup UnknownMessages

\* A text frame: json is FALSE for a frame json.loads rejects.
Frames == [json : {TRUE}, data : Messages] \cup [json : {FALSE}]

----------------------------------------------------------------------------
(* The session *)

Init ==
    /\ ws_state = "Connecting"
    /\ actions = [c \in {} |-> NoInstance]
    /\ order = <<>>
    /\ global_settings = None
    /\ action_types = ScannedActionTypes
    /\ registered = ScannedActionTypes
    /\ sent = <<>>
    /\ stopped = FALSE
    /\ appeared = [c \in Contexts |-> FALSE]
    /\ last = [op |-> "init"]
    /\ calls = <<>>
    /\ ctor = <<>>
    /\ logs = <<>>
    /\ raised = FALSE
    /\ main_pc = "constructed"
    /\ on_close = "None"
    /\ stop_event = FALSE

\* on_error=lambda ws, error: Logger.error(...)
OnErrorLog == Log("error", "WebSocket error")

\* _on_open that logs the connection and sends nothing.
OnOpenSent_Nothing == <<>>

\* ws.send(json.dumps({'event': event, 'uuid': plugin_uuid})) of _on_open
OnOpenSent == <<[event |-> RegisterEvent, uuid |-> PluginUuid]>>

\* Plugin._on_open: the transport reports the connection and the plugin registers.
OnOpen ==
    /\ ws_state = "Connecting"
    /\ ws_state' = "Open"
    /\ sent' = OnOpenSent
    /\ last' = [op |-> "open"]
    /\ logs' = <<Log("info", "WebSocket connected")>>
    /\ calls' = <<>> /\ ctor' = <<>> /\ raised' = FALSE
    /\ UNCHANGED <<actions, order, global_settings, action_types, registered, stopped, appeared,
                   main_pc, on_close, stop_event>>

\* The history of lifecycle messages: a willAppear that constructed the action
\* or found the context live sets it, any other lifecycle message clears it.
Appeared(data) ==
    IF Event(data) \in {"willAppear", "willDisappear"} /\ Context(data) \in Contexts
    THEN [appeared EXCEPT ![Context(data)] =
             /\ Event(data) = "willAppear"
             /\ \/ Context(data) \in DOMAIN actions
                \/ CreateAction(Get(data, "action", NoneAction), Context(data),
                                Get(Payload(data), "settings", EmptyDoc)).ok]
    ELSE appeared

\* Plugin._on_message, run by the transport for one inbound frame.  An
\* exception that leaves the handler reaches the transport, which reports it
\* to on_error.
OnFrame(frame) ==
    /\ ws_state = "Open"
    /\   IF ~frame.json
         THEN \* json.loads raises before anything else runs
              /\ last' = [op |-> "message", frame |-> frame, thr |-> 0,
                          live |-> DOMAIN actions]
              /\ raised' = TRUE
              /\ logs' = <<OnErrorLog>>
              /\ calls' = <<>> /\ ctor' = <<>>
              /\ UNCHANGED <<actions, order, global_settings, appeared>>
         ELSE \E thr \in 0..Len(HookPlan(frame.data)) :
                \E r \in {Dispatch(frame.data, thr)} :
                    /\ last' = [op |-> "message", frame |-> frame, thr |-> thr,
                                live |-> DOMAIN actions]
                    /\ actions' = r.actions
                    /\ order' = r.order
                    /\ global_settings' = r.global_settings
                    /\ calls' = r.calls
                    /\ ctor' = r.ctor
                    /\ logs' = IF r.raised THEN Append(r.logs, OnErrorLog) ELSE r.logs
                    /\ raised' = r.raised
                    /\ appeared' = Appeared(frame.data)
    /\ sent' = <<>>
    /\ UNCHANGED <<ws_state, action_types, registered, stopped,
                 main_pc, on_close, stop_event>>

OnMessage == \E frame \in Frames : OnFrame(frame)

\* The transport's teardown calls the on_close callback the WebSocketApp
\* holds at that moment, if it holds one; main()'s callback sets stop_event.
Teardown == stop_event \/ on_close = "installed"

\* The transport closes the connection.
OnClose ==
    /\ ws_state = "Open"
    /\ ws_state' = "Closed"
    /\ stop_event' = Teardown
    /\ last' = [op |-> "close"]
    /\ calls' = <<>> /\ ctor' = <<>> /\ logs' = <<>> /\ raised' = FALSE
    /\ sent' = <<>>
    /\ UNCHANGED <<actions, order, global_settings, action_types, registered, stopped, appeared,
                 main_pc, on_close>>

\* The transport fails (while connecting or while open): on_error logs, and
\* the transport's run loop ends.
OnError ==
    /\ ws_state \in {"Connecting", "Open"}
    /\ ws_state' = "Closed"
    /\ stop_event' = Teardown
    /\ last' = [op |-> "error"]
    /\ logs' = <<OnErrorLog>>
    /\ calls' = <<>> /\ ctor' = <<>> /\ raised' = FALSE
    /\ sent' = <<>>
    /\ UNCHANGED <<actions, order, global_settings, action_types, registered, stopped, appeared,
                 main_pc, on_close>>

\* self.ws.send(frame): the transport takes the frame when it is connected
\* and raises otherwise.
WsSend(frame) ==
    IF ws_state = "Open"
    THEN [raised |-> FALSE, sent |-> <<frame>>]
    ELSE [raised |-> TRUE, sent |-> <<>>]

\* set_global_settings that sends and leaves the cache to the host's reply.
SetGlobalSettingsResult_NoCache(payload) ==
    LET send == WsSend([event |-> "setGlobalSettings", context |-> PluginUuid,
                        payload |-> payload])
    IN  [raised |-> send.raised, sent |-> send.sent, global_settings |-> global_settings]

\* Plugin.set_global_settings(payload): the assignment follows the send.
SetGlobalSettingsResult(payload) ==
    LET send == WsSend([event |-> "setGlobalSettings", context |-> PluginUuid,
                        payload |-> payload])
    IN  [raised |-> send.raised, sent |-> send.sent,
         global_settings |-> IF send.raised THEN global_settings ELSE payload]

SetGlobalSettings ==
    \E payload \in GlobalDocs :
        LET r == SetGlobalSettingsResult(payload)
        IN  /\ sent' = r.sent
            /\ global_settings' = r.global_settings
            /\ raised' = r.raised
            /\ last' = [op |-> "set_global_settings", payload |-> payload]
            /\ calls' = <<>> /\ ctor' = <<>> /\ logs' = <<>>
            /\ UNCHANGED <<ws_state, actions, order, action_types, registered, stopped, appeared,
                           main_pc, on_close, stop_event>>

\* Plugin.get_global_settings()
GetGlobalSettingsResult ==
    WsSend([event |-> "getGlobalSettings", context |-> PluginUuid])

GetGlobalSettings ==
    LET r == GetGlobalSettingsResult
    IN  /\ sent' = r.sent
        /\ raised' = r.raised
        /\ last' = [op |-> "get_global_settings"]
        /\ calls' = <<>> /\ ctor' = <<>> /\ logs' = <<>>
        /\ UNCHANGED <<ws_state, actions, order, global_settings, action_types, registered,
                       stopped, appeared,
                       main_pc, on_close, stop_event>>

\* return self.actions.get(context)
GetActionResult(context) ==
    IF context \in DOMAIN actions
    THEN [found |-> TRUE, inst |-> actions[context]]
    ELSE [found |-> FALSE, inst |-> NoInstance]

\* Plugin.get_action
GetAction ==
    \E context \in Contexts :
        /\ last' = [op |-> "get_action", context |-> context,
                    result |-> GetActionResult(context)]
        /\ sent' = <<>> /\ calls' = <<>> /\ ctor' = <<>> /\ logs' = <<>>
        /\ raised' = FALSE
        /\ UNCHANGED <<ws_state, actions, order, global_settings, action_types,
                       registered, stopped, appeared,
                       main_pc, on_close, stop_event>>

\* The arguments get_actions is called with: full action strings and registry
\* keys.
TypeQueries == ActionStrings \cup {KeyTest, KeyKnob}

\* get_actions that compares the last segment of an action's string.
GetActionsResult_ByName(action) ==
    LET with == SelectSeq(order, LAMBDA c : ActionName(actions[c].action) = action)
    IN  [i \in 1..Len(with) |-> actions[with[i]]]

\* return [a for a in self.actions.values() if a.action == action]
GetActionsResult(action) ==
    LET with == SelectSeq(order, LAMBDA c : actions[c].action = action)
    IN  [i \in 1..Len(with) |-> actions[with[i]]]

\* Plugin.get_actions
GetActions ==
    \E action \in TypeQueries :
        /\ last' = [op |-> "get_actions", action |-> action,
                    result |-> GetActionsResult(action)]
        /\ sent' = <<>> /\ calls' = <<>> /\ ctor' = <<>> /\ logs' = <<>>
        /\ raised' = FALSE
        /\ UNCHANGED <<ws_state, actions, order, global_settings, action_types,
                       registered, stopped, appeared,
                       main_pc, on_close, stop_event>>

\* Plugin.stop(): http_server is None (the call that starts it is commented
\* out), so the body does nothing; the transport is not touched.
StopResult == [ws_state |-> ws_state]

Stop ==
    /\ stopped' = (stopped \/ ws_state = "Open")
    /\ ws_state' = StopResult.ws_state
    /\ sent' = <<>>
    /\ last' = [op |-> "stop"]
    /\ calls' = <<>> /\ ctor' = <<>> /\ logs' = <<>> /\ raised' = FALSE
    /\ UNCHANGED <<actions, order, global_settings, action_types, registered, appeared,
                   main_pc, on_close, stop_event>>

----------------------------------------------------------------------------
(* ActionFactory called directly *)

\* The type keys register_action is called with.
RegistryKeys == {KeyTest, KeyKnob, KeyBad, <<"c">>}

\* The action strings create_action is called with: no dot, one dot, two
\* dots, the key in the first segment, a trailing dot, and no string at all.
RegistryActionStrings ==
    {KeyTest, <<"c", ".">> \o KeyTest, <<"c", ".", "c", ".">> \o KeyTest,
     KeyTest \o <<".", "c">>, <<"c", ".">> \o KeyTest \o <<".">>,
     <<"c", ".">> \o KeyKnob, <<"c", ".">> \o KeyBad, NoneAction}

\* register_action that keeps the class a key already has.
RegisterActionResult_FirstWins(action_type, action_class) ==
    [k \in DOMAIN action_types \cup {action_type} |->
        IF k \in DOMAIN action_types THEN action_types[k] ELSE action_class]

\* cls._action_types[action_type] = action_class
RegisterActionResult(action_type, action_class) ==
    [k \in DOMAIN action_types \cup {action_type} |->
        IF k = action_type THEN action_class ELSE action_types[k]]

\* ActionFactory.register_action
RegisterAction ==
    \E action_type \in RegistryKeys, action_class \in Classes :
        /\ action_types' = RegisterActionResult(action_type, action_class)
        /\ registered' = [k \in DOMAIN registered \cup {action_type} |->
                             IF k = action_type THEN action_class ELSE registered[k]]
        /\ last' = [op |-> "register_action", action_type |-> action_type,
                    action_class |-> action_class]
        /\ sent' = <<>> /\ calls' = <<>> /\ ctor' = <<>> /\ logs' = <<>>
        /\ raised' = FALSE
        /\ UNCHANGED <<ws_state, actions, order, global_settings, stopped, appeared,
                       main_pc, on_close, stop_event>>

\* ActionFactory.create_action called on its own: the instance is returned to
\* the caller and stored nowhere.
CreateActionCall ==
    \E action \in RegistryActionStrings :
        \E r \in {CreateAction(action, "c1", EmptyDoc)} :
            /\ last' = [op |-> "create_action", action |-> action, ok |-> r.ok,
                        inst |-> r.inst]
            /\ ctor' = r.ctor
            /\ logs' = r.logs
            /\ sent' = <<>> /\ calls' = <<>>
            /\ raised' = FALSE
            /\ UNCHANGED <<ws_state, actions, order, global_settings, action_types,
                           registered, stopped, appeared,
                           main_pc, on_close, stop_event>>

NextRegistry ==
    \/ RegisterAction
    \/ CreateActionCall

SpecRegistry == Init /\ [][NextRegistry]_vars

----------------------------------------------------------------------------
(* The lifecycle messages in every shape the handler reads them *)

\* willAppear with and without a context, with no payload, with a payload
\* that has no settings, and with settings; action strings of a class that
\* constructs and of one whose constructor raises.
LifecycleAppearMessages ==
    LET strings == {<<"c", ".">> \o KeyTest, <<"c", ".">> \o KeyBad}
    IN  [event : {"willAppear"}, action : strings]
        \cup [event : {"willAppear"}, context : Contexts, action : strings]
        \cup [event : {"willAppear"}, action : strings, payload : [state : {0}]]
        \cup [event : {"willAppear"}, context : Contexts, action : strings,
              payload : [state : {0}]]
        \cup [event : {"willAppear"}, action : strings,
              payload : [settings : SettingsDocs]]
        \cup [event : {"willAppear"}, context : Contexts, action : strings,
              payload : [settings : SettingsDocs]]

LifecycleDisappearMessages ==
    [event : {"willDisappear"}]
    \cup [event : {"willDisappear"}, context : Contexts]

LifecycleFrames ==
    [json : {TRUE}, data : LifecycleAppearMessages \cup LifecycleDisappearMessages]
    \cup [json : {FALSE}]

OnLifecycleMessage == \E frame \in LifecycleFrames : OnFrame(frame)

NextLifecycle ==
    \/ OnOpen
    \/ OnLifecycleMessage
    \/ OnClose
    \/ OnError

SpecLifecycle == Init /\ [][NextLifecycle]_vars

----------------------------------------------------------------------------
(* main(): the main flow beside the transport's thread, which the Plugin *)
(* constructor has already started                                        *)

\* stop_event = threading.Event(); plugin.ws.on_close = on_close
MainInstallOnClose ==
    /\ main_pc = "constructed"
    /\ main_pc' = "waiting"
    /\ on_close' = "installed"
    /\ last' = [op |-> "install_on_close"]
    /\ sent' = <<>> /\ calls' = <<>> /\ ctor' = <<>> /\ raised' = FALSE
    /\ logs' = <<Log("info", "Plugin is ready for testing. Press Ctrl+C to exit.")>>
    /\ UNCHANGED <<ws_state, actions, order, global_settings, action_types,
                   registered, stopped, appeared, stop_event>>

\* while not stop_event.is_set(): time.sleep(1) -- the loop ends once the
\* event is set; an iteration that finds it unset changes nothing.
MainExit ==
    /\ main_pc = "waiting"
    /\ stop_event
    /\ main_pc' = "exited"
    /\ last' = [op |-> "main_exit"]
    /\ sent' = <<>> /\ calls' = <<>> /\ ctor' = <<>> /\ logs' = <<>>
    /\ raised' = FALSE
    /\ UNCHANGED <<ws_state, actions, order, global_settings, action_types,
                   registered, stopped, appeared, on_close, stop_event>>

NextMain ==
    \/ MainInstallOnClose
    \/ MainExit
    \/ OnOpen
    \/ OnLifecycleMessage
    \/ OnClose
    \/ OnError

\* The main thread is never starved: each of its steps is taken if it stays
\* possible.  Nothing is assumed of the transport.
SpecMain ==
    /\ Init
    /\ [][NextMain]_vars
    /\ WF_vars(MainInstallOnClose)
    /\ WF_vars(MainExit)

----------------------------------------------------------------------------
(* The whole program *)

Next ==
    \/ OnOpen
    \/ OnMessage
    \/ OnClose
    \/ OnError
    \/ SetGlobalSettings
    \/ GetGlobalSettings
    \/ GetAction
    \/ GetActions
    \/ Stop

Spec == Init /\ [][Next]_vars

----------------------------------------------------------------------------
(* Properties *)

\* The last operation was the handler, on a frame json.loads accepted.
LastIsMessage == last.op = "message" /\ last.frame.json

LastData == last.frame.data

LastIs(event) == LastIsMessage /\ Event(LastData) = event

LastIsBroadcast == LastIsMessage /\ Event(LastData) \in DOMAIN global_events

TimesCalled(c) == Cardinality({i \in 1..Len(calls) : calls[i].context = c})

\* C1: a context is a key of the live action set if and only if the most
\* recent lifecycle message for it was a willAppear whose construction
\* succeeded or which found the context already live.
C1_LiveIffAppeared ==
    \A c \in Contexts : (c \in DOMAIN actions) <=> appeared[c]

\* C2: after a willDisappear message for a context that was live, the context
\* is no key of the live action set, whether the action has no
\* on_will_disappear hook, the hook returned or the hook raised.
C2_DisappearAlwaysRemoves ==
    (LastIs("willDisappear") /\ Context(LastData) \in last.live)
        => Context(LastData) \notin DOMAIN actions

\* C3: when a hook raises during a broadcast event, every live action that
\* defines the hook has still had it invoked, the live set is as it was, the
\* failure is logged and the session is still open.
C3_HookFailureContained ==
    (LastIsBroadcast /\ last.thr # 0)
        => /\ \A c \in DOMAIN actions :
                HasAttr(c, global_events[Event(LastData)]) => TimesCalled(c) >= 1
           /\ DOMAIN actions = last.live
           /\ \E i \in 1..Len(logs) : logs[i].level = "error"
           /\ ws_state = "Open"

\* C4: a frame that is not well-formed JSON is caught inside the handler (no
\* exception leaves it), invokes no hook, constructs nothing, produces exactly
\* one log entry, a DecodeFailure, and leaves the session open.
C4_MalformedCaughtInHandler ==
    (last.op = "message" /\ ~last.frame.json)
        => /\ ~raised
           /\ calls = <<>> /\ ctor = <<>>
           /\ logs = <<Log("error", "DecodeFailure")>>
           /\ ws_state = "Open"

\* C5: a willAppear message for a context that is already live constructs
\* nothing, invokes no hook and leaves the live action set, with the instance
\* stored for the context and its settings, as it was.
C5_AppearOfLiveContextIsNoop ==
    [][(LastIs("willAppear")' /\ Context(LastData)' \in DOMAIN actions)
          => /\ ctor' = <<>>
             /\ calls' = <<>>
             /\ actions' = actions
             /\ order' = order
             /\ ~raised']_vars

C5_Witness ==
    /\ LastIs("willAppear")
    /\ Context(LastData) \in last.live
    /\ "action" \in DOMAIN LastData
    /\ LastData.action = <<"c", ".">> \o KeyTest
    /\ "payload" \in DOMAIN LastData
    /\ actions[Context(LastData)].settings = EmptyDoc

\* C6: a willDisappear message for a context that is not live invokes no hook
\* on any action, raises nothing and leaves the live action set and the global
\* settings as they were.
C6_DisappearOfUnknownContextIsNoop ==
    [][(LastIs("willDisappear")' /\ Context(LastData)' \notin DOMAIN actions)
          => /\ calls' = <<>>
             /\ ~raised'
             /\ actions' = actions
             /\ order' = order
             /\ global_settings' = global_settings]_vars

C6_Witness ==
    /\ LastIs("willDisappear")
    /\ Context(LastData) \notin last.live
    /\ \E c \in DOMAIN actions : HasAttr(c, "on_will_disappear")
    /\ global_settings # None

\* C7: a broadcast event invokes the matching hook exactly once, with the full
\* message, on every action that is live when the message is processed and
\* defines the hook, and on no other context.
C7_BroadcastReachesEveryLiveActionOnce ==
    LastIsBroadcast
        => /\ \A c \in Contexts :
                TimesCalled(c) =
                    IF c \in DOMAIN actions
                       /\ HasAttr(c, global_events[Event(LastData)])
                    THEN 1 ELSE 0
           /\ \A i \in 1..Len(calls) :
                /\ calls[i].hook = global_events[Event(LastData)]
                /\ calls[i].arg = LastData

\* C8: on didReceiveSettings for a live context, an action that defines
\* on_did_receive_settings has it called once with exactly payload.settings
\* and keeps its stored settings; an action that does not define it has its
\* stored settings set to payload.settings and no hook called; no other
\* action changes.
C8_DidReceiveSettings ==
    [][(/\ LastIs("didReceiveSettings")'
        /\ Context(LastData)' \in DOMAIN actions
        /\ "payload" \in DOMAIN LastData'
        /\ "settings" \in DOMAIN LastData'.payload)
          => LET c == Context(LastData)'
                 s == LastData'.payload.settings
             IN  /\ DOMAIN actions' = DOMAIN actions
                 /\ \A d \in DOMAIN actions \ {c} : actions'[d] = actions[d]
                 /\ IF HasAttr(c, "on_did_receive_settings")
                    THEN /\ calls' = <<Call(c, "on_did_receive_settings", s)>>
                         /\ actions'[c].settings = actions[c].settings
                    ELSE /\ calls' = <<>>
                         /\ actions'[c].settings = s]_vars

C8_Witness ==
    /\ LastIs("didReceiveSettings")
    /\ "payload" \in DOMAIN LastData
    /\ Context(LastData) \in last.live
    /\ calls # <<>>
    /\ actions[Context(LastData)].settings # LastData.payload.settings
    /\ Cardinality(DOMAIN actions) = 2

\* C9: a set_global_settings(p) that returns has sent exactly one frame,
\* {event: setGlobalSettings, context: plugin UUID, payload: p}, and has made
\* the cache equal to p; the cache changes only in set_global_settings and on
\* a didReceiveGlobalSettings message.
C9_SetGlobalSettingsIsOptimistic ==
    [][/\ (last'.op = "set_global_settings" /\ ~raised')
            => /\ sent' = <<[event |-> "setGlobalSettings", context |-> PluginUuid,
                             payload |-> last'.payload]>>
               /\ global_settings' = last'.payload
       /\ (global_settings' # global_settings)
            => \/ last'.op = "set_global_settings"
               \/ LastIs("didReceiveGlobalSettings")']_vars

C9_Witness ==
    /\ last.op = "set_global_settings"
    /\ ~raised
    /\ Len(sent) = 1
    /\ global_settings = last.payload

\* The session is closed: the transport has closed or failed, or stop() has
\* been called on the connected session.
SessionClosed == ws_state = "Closed" \/ stopped

\* C10: once the session is closed it stays closed, no frame is sent and no
\* inbound message is dispatched.
C10_ClosedIsQuietAndTerminal ==
    [][SessionClosed
          => /\ SessionClosed'
             /\ sent' = <<>>
             /\ last'.op # "message"]_vars

\* C11: stop() on an open session closes the transport: the session is
\* closed when stop() returns.
C11_StopClosesTransport ==
    [][(last'.op = "stop" /\ ws_state = "Open") => ws_state' = "Closed"]_vars

\* C12: the connected signal sends exactly the registration frame
\* {event: registerEvent, uuid: pluginUUID}; while the session is connecting
\* no other step sends a frame or dispatches an inbound message, and the
\* session never connects a second time, so the registration is the first
\* frame of the session and is sent once.
C12_RegistrationComesFirst ==
    [][/\ (last'.op = "open")
            => /\ ws_state = "Connecting"
               /\ sent' = <<[event |-> RegisterEvent, uuid |-> PluginUuid]>>
       /\ (ws_state = "Connecting" /\ last'.op # "open")
            => (sent' = <<>> /\ last'.op # "message")
       /\ (ws_state # "Connecting")
            => (ws_state' # "Connecting" /\ last'.op # "open")]_vars

C12_Witness ==
    /\ last.op = "open"
    /\ ws_state = "Open"
    /\ Len(sent) = 1
    /\ sent[1].uuid = PluginUuid

\* The action fields for which create_action has nothing to return: no action
\* field, a last segment that is no registry key, and the key of the class
\* whose constructor raises.
FailingActions == {<<"None">>, <<"c", ".", "n", "o">>, <<"c", ".", "b", "a", "d">>}

\* C13: create_action never raises.  A willAppear for a context that is not
\* live, whose action field is missing, names an unregistered key or names a
\* class whose constructor raises, leaves no exception, logs the failure,
\* leaves the context absent, changes nothing else and leaves the session
\* open for the next message.
C13_CreateFailureIsContained ==
    [][(/\ LastIs("willAppear")'
        /\ Context(LastData') \notin DOMAIN actions
        /\ Get(LastData', "action", <<"None">>) \in FailingActions)
          => /\ raised' = FALSE
             /\ \E i \in 1..Len(logs') :
                    logs'[i] = [level |-> "error", msg |-> "Failed to create action"]
             /\ Context(LastData') \notin DOMAIN actions'
             /\ actions' = actions /\ order' = order
             /\ global_settings' = global_settings
             /\ calls' = <<>> /\ sent' = <<>>
             /\ ws_state' = "Open"]_vars

C13_Witness ==
    /\ LastIs("willAppear")
    /\ Context(LastData) \notin last.live
    /\ Get(LastData, "action", <<"None">>) = <<"c", ".", "b", "a", "d">>
    /\ Len(ctor) = 1
    /\ Context(LastData) \notin DOMAIN actions
    /\ ~raised

\* C14: registration is last-write-wins and idempotent.  The registry holds,
\* for every key, the class of the most recent register_action call for that
\* key (so a registration leaves the other keys alone); create_action
\* constructs with that class; and registering a pair the registry already
\* holds leaves the registry as it was.
C14_LastRegistrationWins ==
    /\ [](/\ action_types = registered
          /\ (last.op = "create_action" /\ Len(ctor) > 0)
                => ctor[1].cls = registered[ActionName(last.action)])
    /\ [][(/\ last'.op = "register_action"
           /\ last'.action_type \in DOMAIN action_types
           /\ action_types[last'.action_type] = last'.action_class)
             => action_types' = action_types]_vars

\* A create_action that built the class a later registration put in the place
\* of the scanned one.
C14_Witness ==
    /\ last.op = "create_action"
    /\ last.action = <<"c", ".", "t", "e", "s", "t">>
    /\ Len(ctor) = 1
    /\ ctor[1].cls = "Knob"
    /\ last.ok

\* The characters of s after its final '.', or s itself when it has none.
AfterFinalDot(s) ==
    LET dots == {i \in 1..Len(s) : s[i] = "."}
    IN  IF dots = {}
        THEN s
        ELSE LET final == CHOOSE i \in dots : \A j \in dots : j <= i
             IN  SubSeq(s, final + 1, Len(s))

\* C20: create_action looks the constructor up by the substring after the
\* final '.' of the action string and by nothing else: it constructs exactly
\* when that substring is a registry key, with the class registered for it,
\* and a string without '.' is looked up whole.
C20_LookupByLastSegment ==
    (last.op = "create_action" /\ last.action # <<"None">>)
        => IF AfterFinalDot(last.action) \in DOMAIN action_types
           THEN /\ Len(ctor) = 1
                /\ ctor[1].cls = action_types[AfterFinalDot(last.action)]
                /\ ctor[1].action = last.action
           ELSE /\ ctor = <<>>
                /\ ~last.ok

\* The key is the first segment and not the last: the lookup is by "c".
C20_Witness ==
    /\ last.op = "create_action"
    /\ last.action = <<"t", "e", "s", "t", ".", "c">>
    /\ <<"c">> \in DOMAIN action_types
    /\ Len(ctor) = 1
    /\ ctor[1].cls = action_types[<<"c">>]
    /\ action_types[<<"c">>] # action_types[<<"t", "e", "s", "t">>]

\* The events the handler has a branch for.
HandledEvents ==
    {"didReceiveGlobalSettings", "willAppear", "willDisappear",
     "didReceiveSettings", "titleParametersDidChange",
     "keyDown", "keyUp", "dialDown", "dialUp", "dialRotate",
     "deviceDidConnect", "deviceDidDisconnect", "applicationDidLaunch",
     "applicationDidTerminate", "systemDidWakeUp",
     "propertyInspectorDidAppear", "propertyInspectorDidDisappear",
     "sendToPlugin"}

\* C15: a well-formed message whose event has no handler is logged as an
\* UnhandledEvent, invokes no hook, leaves the live action set and the
\* global-settings cache as they were and leaves the session open.
C15_UnknownEventLoggedUnhandled ==
    [][(LastIsMessage' /\ Event(LastData') \notin HandledEvents)
          => /\ \E i \in 1..Len(logs') : logs'[i].msg = "UnhandledEvent"
             /\ calls' = <<>> /\ ctor' = <<>>
             /\ actions' = actions
             /\ global_settings' = global_settings
             /\ raised' = FALSE
             /\ ws_state' = "Open"]_vars

\* The hook the router looks up for an event that addresses one context.
ContextHook(event) ==
    CASE event = "keyDown" -> "on_key_down"
      [] event = "keyUp" -> "on_key_up"
      [] event = "dialDown" -> "on_dial_down"
      [] event = "dialUp" -> "on_dial_up"
      [] event = "dialRotate" -> "on_dial_rotate"
      [] event = "sendToPlugin" -> "on_send_to_plugin"
      [] event = "propertyInspectorDidAppear" -> "on_property_inspector_did_appear"
      [] event = "propertyInspectorDidDisappear" -> "on_property_inspector_did_disappear"

\* C18: keyDown, keyUp, dialDown, dialUp, dialRotate, sendToPlugin,
\* propertyInspectorDidAppear and propertyInspectorDidDisappear invoke the
\* matching hook at most once, on the action of the message's context and on
\* no other; when the context is not live or its action does not define the
\* hook nothing is invoked, nothing fails and nothing but the event is logged.
C18_ContextEventReachesOnlyItsAction ==
    (LastIsMessage /\ Event(LastData) \in
            {"keyDown", "keyUp", "dialDown", "dialUp", "dialRotate", "sendToPlugin",
             "propertyInspectorDidAppear", "propertyInspectorDidDisappear"})
        => LET c == Context(LastData)
               h == ContextHook(Event(LastData))
           IN  /\ Len(calls) <= 1
               /\ \A i \in 1..Len(calls) : calls[i].context = c /\ calls[i].hook = h
               /\ DOMAIN actions = last.live
               /\ (c \notin DOMAIN actions \/ h \notin Hooks(actions[c].cls))
                    => /\ calls = <<>>
                       /\ ~raised
                       /\ logs = <<[level |-> "info", msg |-> Event(LastData)]>>

\* A key event for one of two live actions that both define the hook.
C18_Witness ==
    /\ LastIs("keyUp")
    /\ DOMAIN actions = {"c1", "c2"}
    /\ \A c \in DOMAIN actions : "on_key_up" \in Hooks(actions[c].cls)
    /\ Len(calls) = 1
    /\ calls[1].context = Context(LastData)

\* C19: on didReceiveGlobalSettings the cache holds payload.settings,
\* on_did_receive_global_settings has been invoked exactly once, with the new
\* settings, on every live action that defines it, and the live action set is
\* as it was.
C19_GlobalSettingsReachEveryLiveAction ==
    LastIs("didReceiveGlobalSettings")
        => /\ global_settings = Get(Payload(LastData), "settings", "None")
           /\ \A c \in Contexts :
                TimesCalled(c) =
                    IF c \in DOMAIN actions
                       /\ "on_did_receive_global_settings" \in Hooks(actions[c].cls)
                    THEN 1 ELSE 0
           /\ \A i \in 1..Len(calls) :
                /\ calls[i].hook = "on_did_receive_global_settings"
                /\ calls[i].arg = global_settings
           /\ DOMAIN actions = last.live

\* The elements of a sequence.
Range(seq) == {seq[i] : i \in 1..Len(seq)}

C22_OnlyLifecycleChangesLiveKeys ==
    [][((DOMAIN actions' \ DOMAIN actions) \cup (DOMAIN actions \ DOMAIN actions'))
          \subseteq
       (IF LastIsMessage' /\ Event(LastData') \in {"willAppear", "willDisappear"}
        THEN {Context(LastData')}
        ELSE {})]_vars

\* A message that is no lifecycle message, for a live context, with another
\* context live beside it.
C22_Witness ==
    /\ LastIs("keyDown")
    /\ Context(LastData) \in DOMAIN actions
    /\ DOMAIN actions = {"c1", "c2"}
    /\ DOMAIN actions = last.live
    /\ Len(calls) = 1

\* data.get('payload', {}).get('settings', {}) read off the message.
SettingsOf(data) ==
    IF "payload" \in DOMAIN data
    THEN IF "settings" \in DOMAIN data.payload THEN data.payload.settings ELSE "{}"
    ELSE "{}"

\* C21: a willAppear that finds its context absent and succeeds has
\* constructed exactly once, with the message's whole action string, the
\* message's context and payload.settings (the empty document when the
\* payload or its settings are absent); the instance is stored under that
\* context and no other key is touched.  (The model has one session, so the
\* session handle is not a value that could differ.)
C21_AppearConstructsOnceAndStores ==
    (/\ LastIs("willAppear")
     /\ Context(LastData) \notin last.live
     /\ Context(LastData) \in DOMAIN actions)
        => /\ Len(ctor) = 1
           /\ ctor[1].action = LastData.action
           /\ ctor[1].context = Context(LastData)
           /\ ctor[1].settings = SettingsOf(LastData)
           /\ actions[Context(LastData)].cls = ctor[1].cls
           /\ actions[Context(LastData)].action = LastData.action
           /\ actions[Context(LastData)].context = Context(LastData)
           /\ actions[Context(LastData)].settings = SettingsOf(LastData)
           /\ DOMAIN actions = last.live \cup {Context(LastData)}

\* A successful willAppear whose payload carries no settings.
C21_Witness ==
    /\ LastIs("willAppear")
    /\ "payload" \in DOMAIN LastData
    /\ "settings" \notin DOMAIN LastData.payload
    /\ "context" \in DOMAIN LastData
    /\ LastData.context \notin last.live
    /\ LastData.context \in DOMAIN actions
    /\ actions[LastData.context].settings = "{}"
    /\ Len(ctor) = 1

\* C24: every key of the live action set is a context string a willAppear
\* message carried, and a willAppear message without a context field adds no
\* entry to the live action set.
C24_KeysAreMessageContexts ==
    /\ DOMAIN actions \subseteq {"c1", "c2"}
    /\ (LastIs("willAppear") /\ "context" \notin DOMAIN LastData)
          => DOMAIN actions = last.live

\* C23: whenever the transport has closed, the stop signal is eventually set
\* and main()'s wait loop exits, whether the transport closed or failed
\* before or after main() installed its on_close callback.
C23_CloseStopsMain ==
    (ws_state = "Closed") ~> (stop_event /\ main_pc = "exited")

====
